---- MODULE Spec2Model ----
(***************************************************************************)
(* A model of DPRequest (datapoint_access.py): the construction of         *)
(* DataPoint query URLs, the blocking transport call and the decoding of   *)
(* the JSON response, as a state machine over one DPRequest instance.      *)
(* Python values are tagged records, Python strings are TLA+ strings and   *)
(* str.format, str.split and dict iteration are computed as Python         *)
(* computes them.                                                          *)
(***************************************************************************)
EXTENDS Integers, Sequences, FiniteSets, TLC

VARIABLES
    data_type,       \* self.data_type
    wx_type,         \* self.wx_type
    api_key,         \* self.api_key
    time_period,     \* self.time_period
    site_id,         \* self.site_id
    kwargs,          \* self.kwargs, as the sequence of (kw, val) pairs in iteration order
    data_container,  \* self.data_container
    request_str,     \* self.request_str
    http_code,       \* self.http_code
    response,        \* self.response
    data,            \* self.data
    op,              \* the call the caller made last, with its argument
    err,             \* the exception that call raised, or NoErr
    ret,             \* the value that call returned (None when it raised)
    calls,           \* the URLs urllib2.urlopen was called with during that call
    raised,          \* the exception urllib2.urlopen raised during that call, or NoErr
    response_url,    \* the URL self.response was read from (None while it is None)
    built_site       \* the site_id the last build_request formatted into
                     \* self.request_str (None when it formatted none)

config == <<data_type, wx_type, api_key, time_period, site_id, kwargs, data_container>>
state  == <<request_str, http_code, response, data>>
obs    == <<op, err, ret, calls, raised, response_url, built_site>>
vars   == <<data_type, wx_type, api_key, time_period, site_id, kwargs, data_container,
            request_str, http_code, response, data,
            op, err, ret, calls, raised, response_url, built_site>>

(***************************************************************************)
(* Python values.                                                          *)
(***************************************************************************)
None == [t |-> "NoneType"]
StrV(s) == [t |-> "str", s |-> s]
IntV(n) == [t |-> "int", n |-> n]
JsonV(j) == [t |-> "json", j |-> j]

\* isinstance(val, int)
IsInt(val) == val.t = "int"

\* str(val), as '{}'.format(val) renders it
PyStr(val) ==
    CASE val.t = "str" -> val.s
      [] val.t = "int" -> ToString(val.n)
      [] val.t = "NoneType" -> "None"

(***************************************************************************)
(* Exceptions.                                                             *)
(***************************************************************************)
NoErr == [type |-> "none"]
ValueError(msg) == [type |-> "ValueError", msg |-> msg]
TypeError(msg) == [type |-> "TypeError", msg |-> msg]
AttributeError(msg) == [type |-> "AttributeError", msg |-> msg]
HTTPError(code) == [type |-> "HTTPError", code |-> code]

(***************************************************************************)
(* String helpers. A format template is the sequence of the literal pieces *)
(* of the source's template string, with "{}" standing for each            *)
(* replacement field.                                                      *)
(***************************************************************************)
RECURSIVE Find(_, _, _)
\* the first index >= i at which pat occurs in s, or 0
Find(s, pat, i) ==
    IF i + Len(pat) - 1 > Len(s) THEN 0
    ELSE IF SubSeq(s, i, i + Len(pat) - 1) = pat THEN i
    ELSE Find(s, pat, i + 1)

RECURSIVE Split(_, _)
\* s.split(sep) as a sequence of strings
Split(s, sep) ==
    LET i == Find(s, sep, 1)
    IN IF i = 0 THEN <<s>>
       ELSE <<SubSeq(s, 1, i - 1)>> \o Split(SubSeq(s, i + Len(sep), Len(s)), sep)

RECURSIVE Format(_, _)
\* template.format(*args): each '{}' field takes the next positional argument,
\* rendered with str(). Every call of this program passes as many arguments as
\* its template has fields.
Format(template, args) ==
    IF template = <<>> THEN ""
    ELSE IF Head(template) = "{}"
    THEN PyStr(Head(args)) \o Format(Tail(template), Tail(args))
    ELSE Head(template) \o Format(Tail(template), args)

(***************************************************************************)
(* Class attributes of DPRequest and the attributes __init__ sets.         *)
(***************************************************************************)
data_types == {"val", "txt"}
wx_types == {"wxfcs", "wxobs"}

request_types ==
    ("fcs_sites" :> <<"val/wxfcs/all/", "{}", "/sitelist">>) @@
    ("fcs_capabilities" :> <<"val/wxfcs/all/", "{}", "/capabilities">>) @@
    ("fcs_fiveday" :> <<"val/wxfcs/all/", "{}", "/", "{}">>) @@
    ("obs_sites" :> <<"val/wxobs/all/", "{}", "/sitelist">>) @@
    ("obs_capabilities" :> <<"val/wxobs/all/", "{}", "/capabilities">>) @@
    ("obs_fiveday" :> <<"val/wxobs/all/", "{}", "/", "{}">>)

base_url ==
    <<"http://datapoint.metoffice.gov.uk/public/data/", "{}", "?", "{}", "key=", "{}">>

RECURSIVE Join(_)
\* the template string itself, unformatted
Join(template) ==
    IF template = <<>> THEN "" ELSE Head(template) \o Join(Tail(template))

\* The value of an attribute no statement assigns.
Missing == [t |-> "missing"]

\* self.locn_id: read by common_requests, assigned neither by __init__ nor by
\* any other method, and no class attribute.
locn_id == Missing

(***************************************************************************)
(* The collaborators: urllib2.urlopen(url).read() and json.loads(text).    *)
(***************************************************************************)
BodyReport == "{\"SiteRep\":{\"DV\":{\"Location\":{\"Period\":[{\"Rep\":[{\"P\":\"1023\"}]}]}}}}"
BodyNotJson == "<html>Service unavailable</html>"

Bodies == {BodyReport, BodyNotJson}
HttpCodes == {403}

\* What one urlopen(url).read() can do: return a body, or raise HTTPError.
Outcomes ==
    {[ok |-> TRUE, body |-> b] : b \in Bodies} \cup
    {[ok |-> FALSE, code |-> c] : c \in HttpCodes}

\* json.loads(text): the decoded structure, as the set of (path, leaf) pairs of
\* its scalar leaves, or ValueError for text that is no JSON document.
json_loads(text) ==
    CASE text = BodyReport ->
            [ok |-> TRUE,
             value |-> {<< <<"SiteRep", "DV", "Location", "Period", "0", "Rep", "0", "P">>,
                          "1023" >>}]
      [] OTHER ->
            [ok |-> FALSE, value |-> {}]

(***************************************************************************)
(* The bounds of the model: the configurations a DPRequest is built with   *)
(* and the arguments its methods are called with.                          *)
(***************************************************************************)
MaxKwargs == 2

ApiKeys == {StrV("k3y")}
TimePeriods == {StrV("all"), StrV("2012-11-19T15Z")}
SiteIds == {StrV("all"), IntV(3772), StrV("3772")}
KwNames == {"res", "query_time", "time"}
KwValues == {IntV(3), StrV("3")}
Overrides == {StrV("val/wxobs/all/json/capabilities")}
RequestNames == (DOMAIN request_types) \cup {"fcs_hourly"}

\* The keyword dictionaries: sequences of (kw, val) pairs with distinct keys,
\* in the order iteritems() yields them.
KwargsOfLen(n) ==
    {kws \in [1..n -> KwNames \X KwValues] :
        \A i, j \in 1..n : i # j => kws[i][1] # kws[j][1]}
AllKwargs == UNION {KwargsOfLen(n) : n \in 0..MaxKwargs}

(***************************************************************************)
(* __init__: lines 99-110.                                                 *)
(***************************************************************************)
Constructed ==
    /\ data_container = StrV("json")
    /\ request_str = None
    /\ http_code = None
    /\ response = None
    /\ data = None
    /\ op = [name |-> "__init__", arg |-> None]
    /\ err = NoErr
    /\ ret = None
    /\ calls = <<>>
    /\ raised = NoErr
    /\ response_url = None
    /\ built_site = None

\* DPRequest('val', 'wxobs', api_key, site_id=..., res=...), as example.py
\* constructs it, with any site id and with or without the res keyword
Init ==
    /\ data_type = StrV("val")
    /\ wx_type = StrV("wxobs")
    /\ api_key \in ApiKeys
    /\ time_period = StrV("all")
    /\ site_id \in SiteIds
    /\ kwargs \in {<<>>, << <<"res", IntV(3)>> >>}
    /\ Constructed

\* DPRequest(data_type, wx_type, api_key, time_period=..., site_id=..., **kwargs)
InitBuild ==
    /\ data_type \in {StrV(d) : d \in data_types}
    /\ wx_type \in {StrV(w) : w \in wx_types}
    /\ api_key \in ApiKeys
    /\ time_period \in TimePeriods
    /\ site_id \in SiteIds
    /\ kwargs \in AllKwargs
    /\ Constructed

(***************************************************************************)
(* _request: one urlopen of self.request_str. The result of the call on    *)
(* request string rs with self.response = resp, read from resp_url.        *)
(***************************************************************************)
\* _request that forgets the response it held when urlopen raises
_request_clears(rs, resp, resp_url, outcome) ==
    IF rs # None
    THEN IF outcome.ok
         THEN [response |-> StrV(outcome.body), response_url |-> rs,
               err |-> NoErr, calls |-> <<rs>>, raised |-> NoErr]
         ELSE [response |-> None, response_url |-> None,
               err |-> HTTPError(outcome.code), calls |-> <<rs>>,
               raised |-> HTTPError(outcome.code)]
    ELSE [response |-> resp, response_url |-> resp_url,
          err |-> ValueError("Request string has not been set."),
          calls |-> <<>>, raised |-> NoErr]

\* _request without the test of line 118: urlopen(None) is attempted
_request_unchecked(rs, resp, resp_url, outcome) ==
    IF outcome.ok /\ rs # None
    THEN [response |-> StrV(outcome.body), response_url |-> rs,
          err |-> NoErr, calls |-> <<rs>>, raised |-> NoErr]
    ELSE [response |-> resp, response_url |-> resp_url,
          err |-> IF rs = None
                  THEN ValueError("Request string has not been set.")
                  ELSE HTTPError(outcome.code),
          calls |-> <<rs>>,
          raised |-> IF rs = None THEN NoErr ELSE HTTPError(outcome.code)]

\* _request that tries urlopen a second time before it gives up
_request_retries(rs, resp, resp_url, outcome) ==
    IF rs # None
    THEN IF outcome.ok
         THEN [response |-> StrV(outcome.body), response_url |-> rs,
               err |-> NoErr, calls |-> <<rs>>, raised |-> NoErr]
         ELSE [response |-> resp, response_url |-> resp_url,
               err |-> HTTPError(outcome.code), calls |-> <<rs, rs>>,
               raised |-> HTTPError(outcome.code)]
    ELSE [response |-> resp, response_url |-> resp_url,
          err |-> ValueError("Request string has not been set."),
          calls |-> <<>>, raised |-> NoErr]

\* _request that keeps the error page of a failed urlopen as the response
_request_stores_error(rs, resp, resp_url, outcome) ==
    IF rs # None
    THEN IF outcome.ok
         THEN [response |-> StrV(outcome.body), response_url |-> rs,
               err |-> NoErr, calls |-> <<rs>>, raised |-> NoErr]
         ELSE [response |-> StrV(ToString(outcome.code)), response_url |-> rs,
               err |-> HTTPError(outcome.code), calls |-> <<rs>>,
               raised |-> HTTPError(outcome.code)]
    ELSE [response |-> resp, response_url |-> resp_url,
          err |-> ValueError("Request string has not been set."),
          calls |-> <<>>, raised |-> NoErr]

_request(rs, resp, resp_url, outcome) ==
    IF rs # None
    THEN IF outcome.ok
         THEN [response |-> StrV(outcome.body), response_url |-> rs,
               err |-> NoErr, calls |-> <<rs>>, raised |-> NoErr]
         ELSE [response |-> resp, response_url |-> resp_url,
               err |-> HTTPError(outcome.code), calls |-> <<rs>>,
               raised |-> HTTPError(outcome.code)]
    ELSE [response |-> resp, response_url |-> resp_url,
          err |-> ValueError("Request string has not been set."),
          calls |-> <<>>, raised |-> NoErr]

\* A call that raises e before it assigns anything or opens any URL.
Raise(e, call) ==
    /\ op' = call
    /\ err' = e
    /\ ret' = None
    /\ calls' = <<>>
    /\ raised' = NoErr
    /\ UNCHANGED <<config, state, response_url, built_site>>

(***************************************************************************)
(* build_request                                                           *)
(***************************************************************************)
\* the resource string with data type and weather type in each other's place
ResourcePath_swapped ==
    Format(<<"{}", "/", "{}", "/", "{}", "/", "{}", "/", "{}">>,
           <<wx_type, data_type, time_period, data_container, site_id>>)

\* lines 178-183: the resource string built when no resource is passed
ResourcePath ==
    Format(<<"{}", "/", "{}", "/", "{}", "/", "{}", "/", "{}">>,
           <<data_type, wx_type, time_period, data_container, site_id>>)

\* the terminator without the isinstance test: every res value gets the suffix
query_end_any_res(kw, val) ==
    IF kw = "res" THEN "hourly&" ELSE "&"

\* lines 189-192
query_end(kw, val) ==
    IF kw = "res" /\ IsInt(val) THEN "hourly&" ELSE "&"

\* lines 186, 193: sub_query.format(kw, '=', val, query_end)
sub_query(kw, val) ==
    Format(<<"{}", "{}", "{}", "{}">>,
           <<StrV(kw), StrV("="), val, StrV(query_end(kw, val))>>)

RECURSIVE Query(_)
\* lines 187-193: the loop over self.kwargs.iteritems()
Query(kws) ==
    IF kws = <<>> THEN ""
    ELSE sub_query(Head(kws)[1], Head(kws)[2]) \o Query(Tail(kws))

\* the URL with an '&' put in front of the query
BuiltUrl_amp(resource) ==
    StrV(Format(base_url, <<resource, StrV("&" \o Query(kwargs)), api_key>>))

\* the URL whose query grows with every build after the first
BuiltUrl_accumulates(resource) ==
    StrV(Format(base_url,
                <<resource,
                  StrV(Query(kwargs)
                          \o (IF request_str = None THEN "" ELSE Query(kwargs))),
                  api_key>>))

\* lines 195-197
BuiltUrl(resource) ==
    StrV(Format(base_url, <<resource, StrV(Query(kwargs)), api_key>>))

\* the send made before line 195 has assigned the new request string
SendStale(url, outcome) ==
    _request(request_str, response, response_url, outcome)

\* build_request without its line 200: nothing is sent
SendSkipped(url, outcome) ==
    [response |-> response, response_url |-> response_url,
     err |-> NoErr, calls |-> <<>>, raised |-> NoErr]

\* line 200: self._request(), after line 195 assigned url to self.request_str
SendBuilt(url, outcome) ==
    _request(url, response, response_url, outcome)

\* The body of build_request(resource), made as the call `call`.
build_request(resource, call) ==
    LET url == BuiltUrl(IF resource = None THEN StrV(ResourcePath) ELSE resource)
    IN \E outcome \in Outcomes :
        LET r == SendBuilt(url, outcome)
        IN /\ request_str' = url
           /\ response' = r.response
           /\ response_url' = r.response_url
           /\ err' = r.err
           /\ calls' = r.calls
           /\ raised' = r.raised
           /\ ret' = None
           /\ op' = call
           /\ built_site' = IF resource = None THEN site_id ELSE None
           /\ UNCHANGED <<config, http_code, data>>

BuildRequest ==
    \E resource \in {None} \cup Overrides :
        build_request(resource, [name |-> "build_request", arg |-> resource])

(***************************************************************************)
(* common_requests                                                         *)
(***************************************************************************)
\* line 146
c_keys == DOMAIN request_types

\* line 149: request_type.split('_'), for each key
split_keys == [k \in c_keys |-> Split(k, "_")]

\* line 161: c_keys() calls the list c_keys
CallCKeys == [ok |-> FALSE, err |-> TypeError("'list' object is not callable")]

\* the resolver with the site id tested, and filled in, for every shorthand
Resolve_site_checked(request_type) ==
    IF request_type \in c_keys
    THEN IF site_id = StrV("all")
         THEN [ok |-> FALSE,
               err |-> ValueError(Format(
                           <<"Location ID cannot equal 'all' for a five-day ",
                             "{}", " request">>,
                           <<StrV(split_keys[request_type][1])>>))]
         ELSE [ok |-> TRUE,
               resource |-> StrV(Format(request_types[request_type],
                                        <<data_container, site_id>>))]
    ELSE [ok |-> FALSE, err |-> CallCKeys.err]

\* lines 148-161: the resource, or the exception raised instead
Resolve(request_type) ==
    IF request_type \in c_keys
    THEN LET wx == split_keys[request_type][1]
             common_type == split_keys[request_type][2]
         IN IF common_type = "fiveday"
            THEN IF locn_id = Missing
                 THEN [ok |-> FALSE,
                       err |-> AttributeError(
                                   "'DPRequest' object has no attribute 'locn_id'")]
                 ELSE IF locn_id = StrV("all")
                 THEN [ok |-> FALSE,
                       err |-> ValueError(Format(
                                   <<"Location ID cannot equal 'all' for a five-day ",
                                     "{}", " request">>, <<StrV(wx)>>))]
                 ELSE [ok |-> TRUE,
                       resource |-> StrV(Format(request_types[request_type],
                                                <<data_container, locn_id>>))]
            ELSE [ok |-> TRUE,
                  resource |-> StrV(Format(request_types[request_type],
                                           <<data_container>>))]
    ELSE IF CallCKeys.ok
         THEN [ok |-> FALSE,
               err |-> ValueError(
                   "Request type supplied does not match to the following valid options:")]
         ELSE [ok |-> FALSE, err |-> CallCKeys.err]

common_requests(request_type, call) ==
    LET resolved == Resolve(request_type)
    IN IF resolved.ok
       THEN build_request(resolved.resource, call)
       ELSE Raise(resolved.err, call)

CommonRequests ==
    \E request_type \in RequestNames :
        common_requests(request_type,
                        [name |-> "common_requests", arg |-> StrV(request_type)])

(***************************************************************************)
(* _request, as the caller's send                                          *)
(***************************************************************************)
Request ==
    \E outcome \in Outcomes :
        LET r == _request(request_str, response, response_url, outcome)
        IN /\ response' = r.response
           /\ response_url' = r.response_url
           /\ err' = r.err
           /\ calls' = r.calls
           /\ raised' = r.raised
           /\ ret' = None
           /\ op' = [name |-> "_request", arg |-> None]
           /\ UNCHANGED <<config, request_str, http_code, data, built_site>>

(***************************************************************************)
(* parse_response                                                          *)
(***************************************************************************)
\* the fetch made on every parse_response, whatever self.response holds
FetchIfNeeded_always(outcome) ==
    IF request_str # None
    THEN _request(request_str, response, response_url, outcome)
    ELSE [response |-> response, response_url |-> response_url,
          err |-> ValueError("Request string has not been defined."),
          calls |-> <<>>, raised |-> NoErr]

\* lines 213-217: the fetch parse_response makes first when self.response is
\* None, as a _request result
FetchIfNeeded(outcome) ==
    IF response = None
    THEN IF request_str # None
         THEN _request(request_str, response, response_url, outcome)
         ELSE [response |-> response, response_url |-> response_url,
               err |-> ValueError("Request string has not been defined."),
               calls |-> <<>>, raised |-> NoErr]
    ELSE [response |-> response, response_url |-> response_url,
          err |-> NoErr, calls |-> <<>>, raised |-> NoErr]

\* the decoding that stores an empty structure for a body that is no JSON
Parsed_lenient(r) ==
    IF r.err # NoErr
    THEN [err |-> r.err, ret |-> None, data |-> data]
    ELSE [err |-> NoErr, data |-> JsonV(json_loads(r.response.s).value),
          ret |-> JsonV(json_loads(r.response.s).value)]

\* the decoding that clears self.data before it calls json.loads
Parsed_clears(r) ==
    IF r.err # NoErr
    THEN [err |-> r.err, ret |-> None, data |-> data]
    ELSE IF json_loads(r.response.s).ok
    THEN [err |-> NoErr, data |-> JsonV(json_loads(r.response.s).value),
          ret |-> JsonV(json_loads(r.response.s).value)]
    ELSE [err |-> ValueError("No JSON object could be decoded"),
          ret |-> None, data |-> None]

\* lines 218-219, after the fetch result r: what the call raises, returns and
\* leaves in self.data
Parsed(r) ==
    IF r.err # NoErr
    THEN [err |-> r.err, ret |-> None, data |-> data]
    ELSE IF json_loads(r.response.s).ok
    THEN [err |-> NoErr, data |-> JsonV(json_loads(r.response.s).value),
          ret |-> JsonV(json_loads(r.response.s).value)]
    ELSE [err |-> ValueError("No JSON object could be decoded"),
          ret |-> None, data |-> data]

ParseResponse ==
    \E outcome \in Outcomes :
        LET r == FetchIfNeeded(outcome)
            p == Parsed(r)
        IN /\ response' = r.response
           /\ response_url' = r.response_url
           /\ calls' = r.calls
           /\ raised' = r.raised
           /\ op' = [name |-> "parse_response", arg |-> None]
           /\ err' = p.err
           /\ ret' = p.ret
           /\ data' = p.data
           /\ UNCHANGED <<config, request_str, http_code, built_site>>

(***************************************************************************)
(* query_string                                                            *)
(***************************************************************************)
\* query_string that prints the string and returns nothing
QueryString_prints ==
    /\ ret' = None
    /\ op' = [name |-> "query_string", arg |-> None]
    /\ err' = NoErr
    /\ calls' = <<>>
    /\ raised' = NoErr
    /\ UNCHANGED <<config, state, response_url, built_site>>

QueryString ==
    /\ ret' = IF request_str = None THEN StrV(Join(base_url)) ELSE request_str
    /\ op' = [name |-> "query_string", arg |-> None]
    /\ err' = NoErr
    /\ calls' = <<>>
    /\ raised' = NoErr
    /\ UNCHANGED <<config, state, response_url, built_site>>

(***************************************************************************)
(* The caller assigns the public attribute site_id between calls.          *)
(***************************************************************************)
SetSiteId ==
    \E v \in SiteIds \ {site_id} :
        /\ site_id' = v
        /\ op' = [name |-> "site_id=", arg |-> v]
        /\ err' = NoErr
        /\ ret' = None
        /\ calls' = <<>>
        /\ raised' = NoErr
        /\ UNCHANGED <<data_type, wx_type, api_key, time_period, kwargs, data_container,
                       state, response_url, built_site>>

Next ==
    \/ BuildRequest
    \/ CommonRequests
    \/ Request
    \/ ParseResponse
    \/ QueryString
    \/ SetSiteId

Spec == Init /\ [][Next]_vars

(***************************************************************************)
(* The builder alone: build_request on a freshly constructed DPRequest of  *)
(* any configuration.                                                      *)
(***************************************************************************)
BuildFresh == op.name = "__init__" /\ BuildRequest

NextBuild == BuildFresh

SpecBuild == InitBuild /\ [][NextBuild]_vars

(***************************************************************************)
(* The properties.                                                         *)
(***************************************************************************)
StartsWith(s, prefix) ==
    Len(s) >= Len(prefix) /\ SubSeq(s, 1, Len(prefix)) = prefix

\* The error kind a caller sees, by exception type and message.
ErrorKind(e) ==
    IF e.type = "none" THEN "none"
    ELSE IF e.type = "HTTPError" THEN "TransportError"
    ELSE IF e.type # "ValueError" THEN "other"
    ELSE IF StartsWith(e.msg, "Request string has not been") THEN "RequestNotBuilt"
    ELSE IF StartsWith(e.msg, "No JSON object could be decoded") THEN "DecodeError"
    ELSE IF StartsWith(e.msg, "Location ID cannot equal") THEN "InvalidLocation"
    ELSE IF StartsWith(e.msg, "Request type supplied") THEN "InvalidRequestType"
    ELSE "other"

ServiceRoot == "http://datapoint.metoffice.gov.uk/public/data/"

\* url is ServiceRoot, then the resource, then the '?' that opens the query
HasResource(url, resource) ==
    url # None /\ StartsWith(url.s, ServiceRoot \o resource \o "?")

Builds == {"build_request", "common_requests"}
FiveDay == {"fcs_fiveday", "obs_fiveday"}

\* C1 as stated: a call that fails leaves request_str, response and data
\* exactly as they were before it.
C1_FailureLeavesStateUnchanged ==
    [][err' # NoErr => UNCHANGED <<request_str, response, data>>]_vars

\* C1, amended: a call that fails leaves data as it was; it leaves request_str
\* as it was unless it is a build whose transport call failed (the new URL is
\* already stored); and it leaves response as it was unless it is a
\* parse_response that fetched the body itself and then failed to decode it.
C1_FailureLeavesStateExceptWrittenFields ==
    [][err' # NoErr =>
          /\ data' = data
          /\ (request_str' # request_str =>
                 op'.name \in Builds /\ ErrorKind(err') = "TransportError")
          /\ (response' # response =>
                 /\ op'.name = "parse_response"
                 /\ response = None
                 /\ ErrorKind(err') = "DecodeError")]_vars

\* A rebuild whose transport call failed, on a handle that held a response and
\* parsed data.
C1_Witness ==
    /\ op.name = "build_request"
    /\ ErrorKind(err) = "TransportError"
    /\ response # None
    /\ response_url # request_str
    /\ data # None

\* The resource each shorthand name stands for, with 'json' as the container
\* and, for the five-day names, the site id.
TemplateResource(name, site) ==
    CASE name = "fcs_sites" -> "val/wxfcs/all/json/sitelist"
      [] name = "fcs_capabilities" -> "val/wxfcs/all/json/capabilities"
      [] name = "fcs_fiveday" -> "val/wxfcs/all/json/" \o PyStr(site)
      [] name = "obs_sites" -> "val/wxobs/all/json/sitelist"
      [] name = "obs_capabilities" -> "val/wxobs/all/json/capabilities"
      [] name = "obs_fiveday" -> "val/wxobs/all/json/" \o PyStr(site)

\* C2: after common_requests with one of the six shorthand names on a handle
\* whose site id is not 'all', request_str holds the URL whose resource is
\* that name's template filled with 'json' (and the site id, for five-day).
C2_ShorthandBuildsTemplate ==
    (/\ op.name = "common_requests"
     /\ op.arg.s \in c_keys
     /\ PyStr(site_id) # "all")
        => HasResource(request_str, TemplateResource(op.arg.s, site_id))

\* C3: common_requests with a five-day name on a handle whose site id is
\* 'all' fails with the InvalidLocation error, whose message names the
\* forecast or observation variant, leaves request_str as it was and opens
\* no URL.
C3_FiveDayAllIsInvalidLocation ==
    [][(/\ op'.name = "common_requests"
        /\ op'.arg.s \in FiveDay
        /\ site_id = StrV("all"))
          => /\ ErrorKind(err') = "InvalidLocation"
             /\ err'.msg = "Location ID cannot equal 'all' for a five-day "
                              \o Split(op'.arg.s, "_")[1] \o " request"
             /\ request_str' = request_str
             /\ calls' = <<>>]_vars

\* C4: common_requests with a name that is none of the six shorthands fails
\* with the InvalidRequestType error, leaves request_str as it was and opens
\* no URL.
C4_UnknownNameIsInvalidRequestType ==
    [][(op'.name = "common_requests" /\ op'.arg.s \notin c_keys)
          => /\ ErrorKind(err') = "InvalidRequestType"
             /\ request_str' = request_str
             /\ calls' = <<>>]_vars

\* C5: while no URL has been built, _request and parse_response fail with
\* the RequestNotBuilt error, open no URL and leave request_str, response and
\* data absent.
C5_NotBuiltFails ==
    (op.name \in {"_request", "parse_response"} /\ request_str = None)
        => /\ ErrorKind(err) = "RequestNotBuilt"
           /\ calls = <<>>
           /\ response = None
           /\ data = None

C5_Witness ==
    /\ op.name = "parse_response"
    /\ request_str = None
    /\ ErrorKind(err) = "RequestNotBuilt"

C7_ParseNeverReturnsStaleData ==
    (op.name = "parse_response" /\ err = NoErr)
        => /\ ret = JsonV(json_loads(response.s).value)
           /\ response_url = request_str

C9_ResourceIsFiveSegments ==
    (op.name = "build_request" /\ op.arg = None)
        => HasResource(request_str,
               PyStr(data_type) \o "/" \o PyStr(wx_type) \o "/"
                   \o PyStr(time_period) \o "/json/" \o PyStr(site_id))

C9_Witness ==
    /\ op.name = "build_request"
    /\ op.arg = None
    /\ data_type = StrV("txt")
    /\ wx_type = StrV("wxfcs")
    /\ time_period = StrV("2012-11-19T15Z")
    /\ site_id = IntV(3772)
    /\ request_str # None

\* The segment C10 gives one option.
OptionSegment(kw, val) ==
    IF kw = "res" /\ val.t = "int"
    THEN "res=" \o ToString(val.n) \o "hourly&"
    ELSE kw \o "=" \o PyStr(val) \o "&"

RECURSIVE OptionSegments(_)
OptionSegments(kws) ==
    IF kws = <<>> THEN ""
    ELSE OptionSegment(Head(kws)[1], Head(kws)[2]) \o OptionSegments(Tail(kws))

\* C10: the query of the URL a build_request stores is one segment per
\* option, in iteration order: 'res=<n>hourly&' for res with an integer n,
\* 'name=value&' for every other option and for res with any other value.
C10_OneSegmentPerOption ==
    op.name = "build_request"
        => /\ request_str # None
           /\ request_str.s =
                  ServiceRoot
                      \o (IF op.arg = None THEN ResourcePath ELSE op.arg.s)
                      \o "?" \o OptionSegments(kwargs)
                      \o "key=" \o PyStr(api_key)

C10_Witness ==
    /\ op.name = "build_request"
    /\ request_str # None
    /\ Len(kwargs) = 2
    /\ kwargs[1] = <<"res", StrV("3")>>
    /\ kwargs[2][2] = IntV(3)

\* C11: with no extra options the query fragment is empty and the URL a
\* build_request stores is the service root, the resource, '?key=' and the
\* API key, with nothing between '?' and 'key'.
C11_EmptyOptionsGiveBareKey ==
    (op.name = "build_request" /\ kwargs = <<>>)
        => /\ Query(kwargs) = ""
           /\ request_str # None
           /\ request_str.s =
                  ServiceRoot
                      \o (IF op.arg = None THEN ResourcePath ELSE op.arg.s)
                      \o "?key=" \o PyStr(api_key)

C11_Witness ==
    /\ op.name = "build_request"
    /\ op.arg = None
    /\ kwargs = <<>>
    /\ data_type = StrV("txt")
    /\ request_str # None

CallsThatSend == {"build_request", "common_requests", "_request", "parse_response"}

C13_DataOnlyFromDecoding ==
    [][/\ (data' # None => response' # None)
       /\ (data' # data =>
              /\ op'.name = "parse_response"
              /\ err' = NoErr
              /\ json_loads(response'.s).ok
              /\ data' = JsonV(json_loads(response'.s).value)
              /\ ret' = data')]_vars

C13_Witness ==
    /\ op.name = "parse_response"
    /\ err = NoErr
    /\ data = JsonV(json_loads(BodyReport).value)
    /\ response = StrV(BodyReport)

\* C14: when build_request, called directly or through common_requests,
\* returns, response is present and was read, in that call's one urlopen,
\* from the URL the call stored in request_str.
C14_BuildSends ==
    (op.name \in Builds /\ err = NoErr)
        => /\ request_str # None
           /\ response # None
           /\ response_url = request_str
           /\ calls = <<request_str>>

C14_Witness ==
    /\ op.name = "common_requests"
    /\ err = NoErr
    /\ response # None
    /\ response_url = request_str

C16_ParseFetchesOnlyWhenAbsent ==
    [][op'.name = "parse_response" =>
          /\ (response = None /\ request_str # None) =>
                 /\ calls' = <<request_str>>
                 /\ raised' = NoErr =>
                        /\ response' # None
                        /\ response_url' = request_str
                 /\ raised' # NoErr => err' = raised' /\ response' = None
          /\ response # None =>
                 /\ calls' = <<>>
                 /\ response' = response
          /\ err' = NoErr =>
                 /\ json_loads(response'.s).ok
                 /\ ret' = JsonV(json_loads(response'.s).value)]_vars

\* A parse_response that returned after fetching the body itself.
C16_Witness ==
    /\ op.name = "parse_response"
    /\ err = NoErr
    /\ calls = <<request_str>>
    /\ response_url = request_str
    /\ data # None

\* C17: a build_request that follows a build_request with the same resource
\* argument, with no change of the configuration in between, stores the
\* request_str that was stored before; and request_str changes in no call
\* other than a build.
C17_BuildIsIdempotent ==
    [][/\ (/\ op.name = "build_request"
           /\ op'.name = "build_request"
           /\ op'.arg = op.arg)
             => request_str' = request_str
       /\ request_str' # request_str => op'.name \in Builds]_vars

\* A build_request() that failed on a handle whose response was read from the
\* very URL it stored: that URL had been built before.
C17_Witness ==
    /\ op = [name |-> "build_request", arg |-> None]
    /\ ErrorKind(err) = "TransportError"
    /\ built_site = site_id
    /\ response # None
    /\ response_url = request_str
    /\ kwargs # <<>>

\* The resource of each shorthand that is not a five-day one.
ListingResource(name) ==
    CASE name = "fcs_sites" -> "val/wxfcs/all/json/sitelist"
      [] name = "fcs_capabilities" -> "val/wxfcs/all/json/capabilities"
      [] name = "obs_sites" -> "val/wxobs/all/json/sitelist"
      [] name = "obs_capabilities" -> "val/wxobs/all/json/capabilities"

\* C18: common_requests with a sitelist or capabilities name resolves, for
\* every site id, 'all' included, the name's template filled with 'json'
\* alone, and raises nothing but what the transport raises.
C18_ListingIgnoresSite ==
    (op.name = "common_requests" /\ op.arg.s \in c_keys \ FiveDay)
        => /\ HasResource(request_str, ListingResource(op.arg.s))
           /\ calls = <<request_str>>
           /\ err = raised

C18_Witness ==
    /\ op = [name |-> "common_requests", arg |-> StrV("fcs_sites")]
    /\ site_id = StrV("all")
    /\ err = NoErr
    /\ HasResource(request_str, "val/wxfcs/all/json/sitelist")

\* C19: a parse_response whose body is no JSON document raises the decode
\* error and leaves data as it was.
C19_BadBodyIsDecodeError ==
    [][(/\ op'.name = "parse_response"
        /\ raised' = NoErr
        /\ response' # None
        /\ ~json_loads(response'.s).ok)
          => /\ ErrorKind(err') = "DecodeError"
             /\ ret' = None
             /\ data' = data]_vars

C19_Witness ==
    /\ op.name = "parse_response"
    /\ ErrorKind(err) = "DecodeError"
    /\ response = StrV(BodyNotJson)
    /\ data # None

Methods ==
    {"build_request", "common_requests", "_request", "parse_response", "query_string"}

====
